---- MODULE Spec2Model ----
(***************************************************************************)
(* PipeableResult: the Result value, its factories, its unwrap and match    *)
(* methods, the pipeable operators and pipe's reduce over an operator      *)
(* list, with the promises the chain creates kept in a heap and settled    *)
(* one reaction at a time.                                                 *)
(***************************************************************************)
EXTENDS Integers, Sequences, FiniteSets, TLC

VARIABLES
    phase,      \* "new" | "built" | "reducing" | "returned" | "thrown" (pipe),
                \* "answered" | "faulted" (a method call returned or threw)
    made,       \* the factory call that built input: <<"succeed", v>> or <<"defect", e>>
    input,      \* the Result pipe is called on
    ops,        \* the operators given to pipe
    pc,         \* index of the operator the reduce handles next
    cur,        \* reduce's accumulator (prev), then pipe's return value
    heap,       \* the promises created so far, by id
    applied,    \* indices of the operators invoked so far, in invocation order
    outs,       \* what each invoked operator returned, or "throw"
    calls,      \* callback invocations so far: [op |-> index, arg |-> argument]
    introduced  \* a synchronously applied operator returned something pending

vars == <<phase, made, input, ops, pc, cur, heap, applied, outs, calls, introduced>>

(***************************************************************************)
(* Bounds                                                                  *)
(***************************************************************************)
MaxOps == 2     \* longest operator list given to pipe
MaxVal == 2     \* plain success values are 0..MaxVal
MaxShort == 3   \* longest operator list of the short-circuit specification

(***************************************************************************)
(* JavaScript values                                                       *)
(***************************************************************************)
Undefined == [k |-> "undefined"]
Null == [k |-> "null"]
Num(n) == [k |-> "num", n |-> n]
\* a structured error { [ErrorTag]: t }
Err(t) == [k |-> "err", tag |-> t]
\* a reference to the promise heap[i]
Prom(i) == [k |-> "promise", id |-> i]
\* a thrown Error object
Exc(m) == [k |-> "exception", msg |-> m]
\* the Error thrown by handleErrorCase: new Error(`Unhandled error: ${tag}`)
Unhandled(tag) == [k |-> "exception", msg |-> "Unhandled error", tag |-> tag]

IsProm(x) == x.k = "promise"
IsResult(x) == x.k = "result"

\* JavaScript truthiness, as used by `if (v)` and `if (e)`
Truthy(x) ==
    CASE x.k = "undefined" -> FALSE
      [] x.k = "null" -> FALSE
      [] x.k = "num" -> x.n # 0
      [] OTHER -> TRUE

\* completions of a call
Return(x) == [c |-> "return", v |-> x]
Throw(x) == [c |-> "throw", v |-> x]

(***************************************************************************)
(* ResultImpl                                                              *)
(***************************************************************************)
\* the constructor storing e whatever it is, and flagging only a truthy e
ResultImpl_keepsErr(v, e) ==
    [k |-> "result",
     _value |-> IF Truthy(v) THEN v ELSE Null,
     _err |-> e,
     _isFailure |-> Truthy(e)]

\* private constructor(v?, e?)
ResultImpl(v, e) ==
    [k |-> "result",
     _value |-> IF Truthy(v) THEN v ELSE Null,
     _err |-> IF Truthy(e) THEN e ELSE Null,
     _isFailure |-> Truthy(e)]

\* static succeed(v?) and the succeed factory
succeed(v) == ResultImpl(v, Undefined)

\* static defect(e) and the defect factory
defect(e) == ResultImpl(Null, e)

isSuccess(r) == ~r._isFailure

isFailure(r) == r._isFailure

\* value() without its _isFailure test
value_unchecked(r) == Return(r._value)

\* value(): throws on a Failure
value(r) ==
    IF r._isFailure
    THEN Throw(Exc("Cannot get value from Failure"))
    ELSE Return(r._value)

error(r) == r._err

\* isError: typeof candidate[ErrorTag] === 'string'
isError(x) == x.k = "err"

(***************************************************************************)
(* Promises                                                                *)
(***************************************************************************)
\* a promise made by a user callback: the outside world settles it (or never does)
UserPromise(how, x) ==
    [state |-> "pending", v |-> Undefined, src |-> 0, cb |-> <<"user">>,
     how |-> how, will |-> x]

\* src.then(cb): pending until heap[src] settles and the reaction cb has run
ThenPromise(src, cb) ==
    [state |-> "pending", v |-> Undefined, src |-> src, cb |-> cb,
     how |-> "then", will |-> Undefined]

Settled(h, i) == h[i].state # "pending"

(***************************************************************************)
(* User callbacks: fn = [body |-> ..., mode |-> ...]                       *)
(***************************************************************************)
ToNum(x) == IF x.k = "num" THEN x.n ELSE 0

\* the value a callback computes from its argument
Body(fn, arg) ==
    CASE fn.body = "inc" -> Num(ToNum(arg) + 1)
      [] fn.body = "dec" -> Num(ToNum(arg) - 1)
      [] fn.body = "succ" -> succeed(Num(ToNum(arg) + 1))
      [] fn.body = "fail" -> defect(Err("ChainError"))
      [] fn.body = "err" -> Err("MapError")
      [] fn.body = "recover" -> succeed(Num(1))
      [] OTHER -> Undefined

\* calling fn(arg): it returns its value, throws, or returns a new promise
\* that later resolves to its value, rejects, or never settles
Call(fn, arg, h) ==
    CASE fn.mode = "sync" ->
            [c |-> "return", v |-> Body(fn, arg), heap |-> h]
      [] fn.mode = "throw" ->
            [c |-> "throw", v |-> Exc("callback"), heap |-> h]
      [] fn.mode = "async" ->
            [c |-> "return", v |-> Prom(Len(h) + 1),
             heap |-> Append(h, UserPromise("resolve", Body(fn, arg)))]
      [] fn.mode = "reject" ->
            [c |-> "return", v |-> Prom(Len(h) + 1),
             heap |-> Append(h, UserPromise("reject", Exc("rejected")))]
      [] OTHER ->
            [c |-> "return", v |-> Prom(Len(h) + 1),
             heap |-> Append(h, UserPromise("never", Undefined))]

(***************************************************************************)
(* Operators: each takes its callback, the Result and the heap, and yields *)
(* [c, v, heap, called]: the completion, the heap after it, and the        *)
(* arguments its callback was invoked with                                 *)
(***************************************************************************)
Out(c, v, h, called) == [c |-> c, v |-> v, heap |-> h, called |-> called]

\* result.isSuccess() on something that is no Result
NotAResult(h) == Out("throw", Exc("TypeError"), h, <<>>)

\* map turning an exception of fn into a Failure
map_safe(fn, result, h) ==
    IF isSuccess(result)
    THEN IF Call(fn, value(result).v, h).c = "throw"
         THEN Out("return", defect(Err("UnknownError")), h, <<value(result).v>>)
         ELSE Out("return", succeed(Call(fn, value(result).v, h).v),
                  Call(fn, value(result).v, h).heap, <<value(result).v>>)
    ELSE Out("return", defect(error(result)), h, <<>>)

map(fn, result, h) ==
    IF isSuccess(result)
    THEN LET arg == value(result).v
             f == Call(fn, arg, h)
         IN  IF f.c = "throw"
             THEN Out("throw", f.v, f.heap, <<arg>>)
             ELSE Out("return", succeed(f.v), f.heap, <<arg>>)
    ELSE Out("return", defect(error(result)), h, <<>>)

\* mapErr keeping the error it was handed instead of the mapped one
mapErr_sameError(fn, result, h) ==
    IF isFailure(result)
    THEN Out("return", defect(error(result)), Call(fn, error(result), h).heap,
             <<error(result)>>)
    ELSE Out("return", succeed(value(result).v), h, <<>>)

mapErr(fn, result, h) ==
    IF isFailure(result)
    THEN LET arg == error(result)
             fnRes == Call(fn, arg, h)
         IN  IF fnRes.c = "throw"
             THEN Out("throw", fnRes.v, fnRes.heap, <<arg>>)
             ELSE IF IsProm(fnRes.v)
             THEN Out("return", Prom(Len(fnRes.heap) + 1),
                      Append(fnRes.heap, ThenPromise(fnRes.v.id, <<"defect">>)),
                      <<arg>>)
             ELSE Out("return", defect(fnRes.v), fnRes.heap, <<arg>>)
    ELSE Out("return", succeed(value(result).v), h, <<>>)

\* chain without its isSuccess test
chain_always(fn, result, h) ==
    Out(Call(fn, result._value, h).c, Call(fn, result._value, h).v,
        Call(fn, result._value, h).heap, <<result._value>>)

chain(fn, result, h) ==
    IF isSuccess(result)
    THEN LET arg == value(result).v
             f == Call(fn, arg, h)
         IN  Out(f.c, f.v, f.heap, <<arg>>)
    ELSE Out("return", defect(error(result)), h, <<>>)

\* chainErr wrapping what fn returned in a new Failure, as mapErr does
chainErr_asMapErr(fn, result, h) == mapErr(fn, result, h)

chainErr(fn, result, h) ==
    IF isFailure(result)
    THEN LET arg == error(result)
             f == Call(fn, arg, h)
         IN  Out(f.c, f.v, f.heap, <<arg>>)
    ELSE Out("return", succeed(value(result).v), h, <<>>)

\* tap calling fn without waiting for the promise it returned
tap_noAwait(fn, result, h) ==
    IF isSuccess(result)
    THEN Out(Call(fn, value(result).v, h).c,
             IF Call(fn, value(result).v, h).c = "throw"
             THEN Call(fn, value(result).v, h).v ELSE result,
             Call(fn, value(result).v, h).heap, <<value(result).v>>)
    ELSE Out("return", result, h, <<>>)

\* tap wrapping what fn returned in a new Success, as map does
tap_asMap(fn, result, h) == map(fn, result, h)

tap(fn, result, h) ==
    IF isSuccess(result)
    THEN LET arg == value(result).v
             fnRes == Call(fn, arg, h)
         IN  IF fnRes.c = "throw"
             THEN Out("throw", fnRes.v, fnRes.heap, <<arg>>)
             ELSE IF IsProm(fnRes.v)
             THEN Out("return", Prom(Len(fnRes.heap) + 1),
                      Append(fnRes.heap, ThenPromise(fnRes.v.id, <<"const", result>>)),
                      <<arg>>)
             ELSE Out("return", result, fnRes.heap, <<arg>>)
    ELSE Out("return", result, h, <<>>)

catchErr(fn, result, h) ==
    IF isFailure(result)
    THEN LET arg == error(result)
             f == Call(fn, arg, h)
         IN  IF f.c = "throw"
             THEN Out("throw", f.v, f.heap, <<arg>>)
             ELSE Out("return", result, f.heap, <<arg>>)
    ELSE Out("return", result, h, <<>>)

(***************************************************************************)
(* Matching structures: a cases mapping holds a handler per key, the key    *)
(* being "Success" or the ErrorTag of an error                              *)
(***************************************************************************)
Cases(handlers) == [k |-> "cases", handlers |-> handlers]

\* typeof handler === 'function'
IsFunction(handler) == "body" \in DOMAIN handler

\* the record of one handler invocation: which handler, with what
Handled(key, arg) == [k |-> "handled", key |-> key, arg |-> arg]

\* errorCases[key](arg)
CallHandler(key, arg, f) == Out(f.c, f.v, f.heap, <<Handled(key, arg)>>)

\* handleErrorCase returning undefined when no handler is keyed by the tag
handleErrorCase_lenient(err, errorCases, h) ==
    IF err.tag \in DOMAIN errorCases.handlers
    THEN CallHandler(err.tag, err,
                     Call(errorCases.handlers[err.tag], err, h))
    ELSE Out("return", Undefined, h, <<>>)

\* the key of some error handler of the mapping, whatever the error
AnyErrorKey(errorCases) ==
    CHOOSE t \in DOMAIN errorCases.handlers :
        ("Success" \in DOMAIN errorCases.handlers /\ DOMAIN errorCases.handlers # {"Success"})
            => t # "Success"

\* handleErrorCase picking a handler without looking at the tag
handleErrorCase_anyHandler(err, errorCases, h) ==
    CallHandler(AnyErrorKey(errorCases), err,
                Call(errorCases.handlers[AnyErrorKey(errorCases)], err, h))

\* handleErrorCase(error, errorCases)
handleErrorCase(err, errorCases, h) ==
    IF err.tag \in DOMAIN errorCases.handlers
    THEN CallHandler(err.tag, err,
                     Call(errorCases.handlers[err.tag], err, h))
    ELSE Out("throw", Unhandled(err.tag), h, <<>>)

\* unwrap calling a handler function whatever the variant
ResultImpl_unwrap_eager(r, handler, h) ==
    IF IsFunction(handler)
    THEN CallHandler("handler", r._err, Call(handler, r._err, h))
    ELSE IF ~r._isFailure THEN Out("return", r._value, h, <<>>)
    ELSE handleErrorCase(r._err, handler, h)

\* unwrap taking a handler object { err: h }, h serving every error
ResultImpl_unwrap_errObject(r, handler, h) ==
    IF ~r._isFailure THEN Out("return", r._value, h, <<>>)
    ELSE IF IsFunction(handler)
    THEN CallHandler("handler", r._err, Call(handler, r._err, h))
    ELSE IF "err" \in DOMAIN handler.handlers
    THEN CallHandler("err", r._err, Call(handler.handlers["err"], r._err, h))
    ELSE handleErrorCase(r._err, handler, h)

\* ResultImpl.unwrap(handler)
ResultImpl_unwrap(r, handler, h) ==
    IF ~r._isFailure THEN Out("return", r._value, h, <<>>)
    ELSE IF IsFunction(handler)
    THEN CallHandler("handler", r._err, Call(handler, r._err, h))
    ELSE handleErrorCase(r._err, handler, h)

\* ResultImpl.match(cases); cases.Success(...) with no such handler is a
\* call of undefined
ResultImpl_match(r, cases, h) ==
    IF isSuccess(r)
    THEN IF "Success" \in DOMAIN cases.handlers
         THEN CallHandler("Success", value(r).v,
                          Call(cases.handlers["Success"], value(r).v, h))
         ELSE NotAResult(h)
    ELSE handleErrorCase(error(r), cases, h)

\* ResultImpl.matchErrors(errorCases)
ResultImpl_matchErrors(r, errorCases, h) ==
    IF isSuccess(r)
    THEN Out("return", value(r).v, h, <<>>)
    ELSE handleErrorCase(error(r), errorCases, h)

\* the match operator
match(cases, result, h) == ResultImpl_match(result, cases, h)

\* the matchErrors operator
matchErrors(errorCases, result, h) == ResultImpl_matchErrors(result, errorCases, h)

\* operator(v) for op = [name |-> ..., fn |-> ...]
ApplyOperator(op, x, h) ==
    IF ~IsResult(x) THEN NotAResult(h)
    ELSE CASE op.name = "map" -> map(op.fn, x, h)
           [] op.name = "match" -> match(op.fn, x, h)
           [] op.name = "matchErrors" -> matchErrors(op.fn, x, h)
           [] op.name = "mapErr" -> mapErr(op.fn, x, h)
           [] op.name = "chain" -> chain(op.fn, x, h)
           [] op.name = "chainErr" -> chainErr(op.fn, x, h)
           [] op.name = "tap" -> tap(op.fn, x, h)
           [] OTHER -> catchErr(op.fn, x, h)

(***************************************************************************)
(* safe                                                                    *)
(***************************************************************************)
\* src.catch(cb): pending until heap[src] settles; cb runs on a rejection
CatchPromise(src, cb) ==
    [state |-> "pending", v |-> Undefined, src |-> src, cb |-> cb,
     how |-> "catch", will |-> Undefined]

\* { [ErrorTag]: 'UnknownError', error: ex }
UnknownError(ex) == [k |-> "err", tag |-> "UnknownError", error |-> ex]

\* defect(errorFactory(ex)), given the completion f of errorFactory(ex)
defectFrom(ex, f) ==
    IF f.c = "throw"
    THEN Out("throw", f.v, f.heap, <<ex>>)
    ELSE Out("return", defect(f.v), f.heap, <<ex>>)

\* handleExceptionDuringSafe rethrowing when no errorHandler was given
\* handleExceptionDuringSafe(ex, errorHandler?)
handleExceptionDuringSafe(ex, errorHandler, h) ==
    IF ~IsFunction(errorHandler) /\ ~Truthy(errorHandler)
    THEN Out("return", defect(UnknownError(ex)), h, <<>>)
    ELSE IF IsFunction(errorHandler)
    THEN defectFrom(ex, Call(errorHandler, ex, h))
    ELSE Out("return", defect(errorHandler), h, <<>>)

\* the rest of safe's try block, given the completion fnRes of fn()
safeTry(fnRes, errorHandler) ==
    IF fnRes.c = "throw"
    THEN handleExceptionDuringSafe(fnRes.v, errorHandler, fnRes.heap)
    ELSE IF IsProm(fnRes.v)
    THEN Out("return", Prom(Len(fnRes.heap) + 2),
             fnRes.heap \o <<ThenPromise(fnRes.v.id, <<"wrap">>),
                              CatchPromise(Len(fnRes.heap) + 1,
                                           <<"handleException", errorHandler>>)>>,
             <<>>)
    ELSE Out("return", succeed(fnRes.v), fnRes.heap, <<>>)

\* safe(fn, errorHandler?), fn being () => body(arg)
safe(fn, arg, errorHandler, h) == safeTry(Call(fn, arg, h), errorHandler)

(***************************************************************************)
(* pipe                                                                    *)
(***************************************************************************)
\* identity wrapping its argument again
identity_wrapped(x) == succeed(x)

identity(x) == x

\* unwrapPromiseInResult without its two instanceof Promise branches
unwrapPromiseInResult_noAwait(result, h) ==
    IF ~IsResult(result) THEN NotAResult(h) ELSE Out("return", result, h, <<>>)

\* a Result whose payload is a promise is replaced by a promise of the
\* re-wrapped settled payload; anything else is returned as it is
unwrapPromiseInResult(result, h) ==
    IF ~IsResult(result) THEN NotAResult(h)
    ELSE IF isSuccess(result) /\ IsProm(value(result).v)
    THEN Out("return", Prom(Len(h) + 1),
             Append(h, ThenPromise(value(result).v.id, <<"succeed">>)), <<>>)
    ELSE IF isFailure(result) /\ IsProm(error(result))
    THEN Out("return", Prom(Len(h) + 1),
             Append(h, ThenPromise(error(result).id, <<"defectIfError">>)), <<>>)
    ELSE Out("return", result, h, <<>>)

\* the body of a then-callback, run with the value x its source resolved to
Reaction(cb, x, h, operators) ==
    CASE cb[1] = "op" -> ApplyOperator(operators[cb[2]], x, h)
      [] cb[1] = "unwrap" -> unwrapPromiseInResult(x, h)
      [] cb[1] = "succeed" ->
            Out("return", IF IsResult(x) THEN x ELSE succeed(x), h, <<>>)
      [] cb[1] = "defectIfError" ->
            IF IsResult(x) THEN Out("return", x, h, <<>>)
            ELSE IF x.k \in {"undefined", "null"} THEN NotAResult(h)
            ELSE IF isError(x) THEN Out("return", defect(x), h, <<>>)
            ELSE Out("return", Undefined, h, <<>>)
      [] cb[1] = "defect" -> Out("return", defect(x), h, <<>>)
      [] cb[1] = "wrap" -> Out("return", succeed(x), h, <<>>)
      [] cb[1] = "handleException" -> handleExceptionDuringSafe(x, cb[2], h)
      [] OTHER -> Out("return", cb[2], h, <<>>)

\* a step of the reduce: its completion, the heap after it, whether the
\* operator ran in it, and what the operator returned
Step(c, v, h, ran, out) == [c |-> c, v |-> v, heap |-> h, ran |-> ran, out |-> out]

\* unwrapPromiseInResult(res) applied to a concrete res
unwrapNow(res, unw) == Step(unw.c, unw.v, unw.heap, TRUE, res)

\* what the reduce callback does with res = operator(prev)
afterOperator(res) ==
    IF res.c = "throw"
    THEN Step("throw", res.v, res.heap, TRUE, res)
    ELSE IF IsProm(res.v)
    THEN Step("return", Prom(Len(res.heap) + 1),
              Append(res.heap, ThenPromise(res.v.id, <<"unwrap">>)), TRUE, res)
    ELSE unwrapNow(res, unwrapPromiseInResult(res.v, res.heap))

\* prev is a concrete Result: res = operator(prev)
applyNow(prev, i, h, operators) == afterOperator(ApplyOperator(operators[i], prev, h))

\* res = prev.then(v => operator(v)), then res.then(unwrapPromiseInResult)
applyLater(prev, i, h) ==
    Step("return", Prom(Len(h) + 2),
         h \o <<ThenPromise(prev.id, <<"op", i>>),
                 ThenPromise(Len(h) + 1, <<"unwrap">>)>>,
         FALSE, NotAResult(h))

\* the reduce callback without its prev instanceof Promise test
reducer_eager(prev, i, h, operators) == applyNow(prev, i, h, operators)

\* the reduce callback of piped: (prev, operator) => next prev
reducer(prev, i, h, operators) ==
    IF IsProm(prev) THEN applyLater(prev, i, h) ELSE applyNow(prev, i, h, operators)

\* does an operator's return value carry something pending?
Pending(x) ==
    \/ IsProm(x)
    \/ IsResult(x) /\ (IsProm(x._value) \/ IsProm(x._err))

(***************************************************************************)
(* Inputs                                                                  *)
(***************************************************************************)
Values == {Undefined} \cup {Num(n) : n \in 0..MaxVal}
Errors == {Err("TestError"), Err("OtherError")}

Fn(b, m) == [body |-> b, mode |-> m]
Op(n, b, m) == [name |-> n, fn |-> Fn(b, m)]

Operators ==
    {Op("map", b, m) : b \in {"inc", "dec"}, m \in {"sync", "async"}}
    \cup {Op("map", "inc", "throw"), Op("map", "inc", "reject")}
    \cup {Op("mapErr", "err", m) : m \in {"sync", "async"}}
    \cup {Op("chain", b, m) : b \in {"succ", "fail"}, m \in {"sync", "async"}}
    \cup {Op("chainErr", b, m) : b \in {"recover", "fail"}, m \in {"sync", "async"}}
    \cup {Op("tap", "void", m) : m \in {"sync", "async"}}
    \cup {Op("catchErr", "void", m) : m \in {"sync", "async", "throw"}}

\* the operators of the short-circuit specification
ShortOperators ==
    {Op("map", "inc", m) : m \in {"sync", "async", "throw"}}
    \cup {Op("chain", "fail", "sync"), Op("tap", "void", "sync")}
    \cup {Op("mapErr", "err", "sync"), Op("catchErr", "void", "sync")}
    \cup {Op("chainErr", "recover", "sync"), Op("chainErr", "fail", "async")}

\* chain and chainErr with callbacks returning each of the three shapes: a
\* Result, a bare structured error, a bare value
BareOperators ==
    {Op(n, b, "sync") : n \in {"chain", "chainErr"}, b \in {"succ", "fail", "inc", "err"}}
    \cup {Op("chain", "inc", "async"), Op("chainErr", "err", "async")}

\* the keys of the cases mappings
Keys == {"Success", "TestError", "OtherError"}

\* the mappings over some of the keys, each handler taken from fns
CasesOver(fns) ==
    {Cases(hs) : hs \in UNION {[K -> fns] : K \in SUBSET Keys \ {{}}}}

\* handlers computing a plain value, as given to the methods
MethodCases == CasesOver({Fn("inc", "sync"), Fn("dec", "sync")})

\* what unwrap is given: a single function or a cases mapping
UnwrapHandlers == {Fn("inc", "sync"), Fn("dec", "sync")} \cup MethodCases

\* handlers returning a Result or a promise of one, as given to the operators
PipeHandler(key) ==
    CASE key = "Success" -> Fn("succ", "sync")
      [] key = "TestError" -> Fn("recover", "sync")
      [] OTHER -> Fn("fail", "async")

PipeCases == {Cases([key \in K |-> PipeHandler(key)]) : K \in SUBSET Keys \ {{}}}

\* the match and matchErrors operators, and an asynchronous step before them
MatchOperators ==
    {[name |-> n, fn |-> c] : n \in {"match", "matchErrors"}, c \in PipeCases}
    \cup {Op("map", "inc", "async")}

\* errors whose tag is also the key 'err' of a handler object or the key
\* 'Success' of the Success case
TaggedErrors == {Err("TestError"), Err("err"), Err("Success")}

TagKeys == {"Success", "TestError", "err"}

\* the mappings over some of these keys, { err: h } among them
TagCases ==
    {Cases(hs) : hs \in UNION {[K -> {Fn("inc", "sync"), Fn("dec", "sync")}] :
                                  K \in SUBSET TagKeys \ {{}}}}

\* what safe is given as errorOrHandler: nothing, an error, or a function
ErrorHandlers == {Undefined} \cup Errors \cup {Fn("err", "sync")}

\* the ways the function given to safe completes
SafeModes == {"sync", "throw", "async", "reject", "never"}

\* what a promise held by a Result resolves to: a plain value, nothing, a
\* structured error, a Result
NestedPayloads ==
    {Num(1), Undefined, Err("TestError"), succeed(Num(2)), defect(Err("OtherError"))}

\* operators whose callbacks do not compute with their argument
NestedOperators ==
    {Op("tap", "void", "sync"), Op("catchErr", "void", "sync"),
     Op("chainErr", "recover", "sync"), Op("chain", "fail", "sync"),
     Op("mapErr", "err", "sync")}

\* operators whose callback returns a promise that never settles, among
\* operators whose callbacks return or resolve
StallOperators ==
    {Op("map", "inc", m) : m \in {"sync", "async", "never"}}
    \cup {Op("chain", "fail", "sync"), Op("chain", "succ", "never"),
          Op("tap", "void", "never"), Op("mapErr", "err", "never"),
          Op("chainErr", "recover", "never"), Op("catchErr", "void", "never")}

\* a handler for every key: no error is left without one
LiveHandler(key) ==
    CASE key = "Success" -> Fn("succ", "sync")
      [] key = "TestError" -> Fn("recover", "sync")
      [] OTHER -> Fn("recover", "async")

\* operators whose callbacks return or resolve, never throw or reject, and
\* cases mappings that handle every error
LiveOperators ==
    {Op("map", "inc", "sync"), Op("map", "inc", "async"),
     Op("chain", "succ", "async"), Op("chainErr", "recover", "async"),
     Op("tap", "void", "async"), Op("catchErr", "void", "async"),
     [name |-> "match", fn |-> Cases([key \in Keys |-> LiveHandler(key)])],
     [name |-> "matchErrors",
      fn |-> Cases([key \in Keys \ {"Success"} |-> LiveHandler(key)])]}

OpLists(S, max) == UNION {[1..n -> S] : n \in 0..max}

(***************************************************************************)
(* The state machine                                                       *)
(***************************************************************************)
NoResult == [k |-> "none"]

Init ==
    /\ phase = "new"
    /\ made = <<>>
    /\ input = NoResult
    /\ ops = <<>>
    /\ pc = 1
    /\ cur = NoResult
    /\ heap = <<>>
    /\ applied = <<>>
    /\ outs = <<>>
    /\ calls = <<>>
    /\ introduced = FALSE

\* const input = succeed(v)
Succeed ==
    /\ phase = "new"
    /\ \E v \in Values :
        /\ input' = succeed(v)
        /\ made' = <<"succeed", v>>
    /\ phase' = "built"
    /\ UNCHANGED <<ops, pc, cur, heap, applied, outs, calls, introduced>>

\* const input = defect(e)
Defect ==
    /\ phase = "new"
    /\ \E e \in Errors :
        /\ input' = defect(e)
        /\ made' = <<"defect", e>>
    /\ phase' = "built"
    /\ UNCHANGED <<ops, pc, cur, heap, applied, outs, calls, introduced>>

\* const input = succeed(promise), the promise resolving to w
SucceedPending ==
    /\ phase = "new"
    /\ \E w \in NestedPayloads :
        heap' = <<UserPromise("resolve", w)>>
    /\ input' = succeed(Prom(1))
    /\ made' = <<"succeed", Prom(1)>>
    /\ phase' = "built"
    /\ UNCHANGED <<ops, pc, cur, applied, outs, calls, introduced>>

\* const input = defect(promise), the promise resolving to w
DefectPending ==
    /\ phase = "new"
    /\ \E w \in NestedPayloads :
        heap' = <<UserPromise("resolve", w)>>
    /\ input' = defect(Prom(1))
    /\ made' = <<"defect", Prom(1)>>
    /\ phase' = "built"
    /\ UNCHANGED <<ops, pc, cur, applied, outs, calls, introduced>>

\* input.pipe(...operators): pipeFromArray picks identity or the reduce
PipeWith(S, max) ==
    /\ phase = "built"
    /\ \E operators \in OpLists(S, max) :
        /\ ops' = operators
        /\ IF Len(operators) = 0
           THEN /\ cur' = identity(input)
                /\ phase' = "returned"
           ELSE /\ cur' = input
                /\ phase' = "reducing"
    /\ pc' = 1
    /\ UNCHANGED <<made, input, heap, applied, outs, calls, introduced>>

Pipe == PipeWith(Operators, MaxOps)

PipeShort == PipeWith(ShortOperators, MaxShort)

PipeBare == PipeWith(BareOperators, MaxOps)

PipeMatch == PipeWith(MatchOperators, MaxOps)

PipeNested == PipeWith(NestedOperators, MaxOps)

PipeStall == PipeWith(StallOperators, MaxOps)

PipeLive == PipeWith(LiveOperators, MaxOps)

\* what one invocation of operator i with x adds to the history
Logged(i, x, o) ==
    /\ applied' = Append(applied, i)
    /\ outs' = Append(outs, [x |-> x, c |-> o.c, v |-> o.v])
    /\ calls' = calls \o [j \in 1..Len(o.called) |-> [op |-> i, arg |-> o.called[j]]]

\* the reduce takes the step r for operator pc
Reduced(r) ==
    /\ heap' = r.heap
    /\ IF r.ran THEN Logged(pc, cur, r.out)
                ELSE UNCHANGED <<applied, outs, calls>>
    /\ IF r.c = "throw"
       THEN /\ phase' = "thrown"
            /\ UNCHANGED <<cur, introduced>>
       ELSE /\ phase' = IF pc = Len(ops) THEN "returned" ELSE "reducing"
            /\ cur' = r.v
            /\ introduced' = (introduced \/ (r.ran /\ Pending(r.out.v)))

\* one iteration of piped's reduce callback
ReduceStep ==
    /\ phase = "reducing"
    /\ pc <= Len(ops)
    /\ Reduced(reducer(cur, pc, heap, ops))
    /\ pc' = pc + 1
    /\ UNCHANGED <<made, input, ops>>

\* a method that keeps what it answered in the receiver's _value
Answered_storing(name, handler, o) ==
    /\ ops' = <<[name |-> name, fn |-> handler]>>
    /\ Logged(1, input, o)
    /\ heap' = o.heap
    /\ IF o.c = "throw"
       THEN /\ phase' = "faulted"
            /\ UNCHANGED <<cur, input>>
       ELSE /\ phase' = "answered"
            /\ cur' = o.v
            /\ input' = [input EXCEPT !._value = o.v]
    /\ UNCHANGED <<made, pc, introduced>>

\* input.<name>(handler) was called and completed as o
Answered(name, handler, o) ==
    /\ ops' = <<[name |-> name, fn |-> handler]>>
    /\ Logged(1, input, o)
    /\ heap' = o.heap
    /\ IF o.c = "throw"
       THEN /\ phase' = "faulted"
            /\ UNCHANGED cur
       ELSE /\ phase' = "answered"
            /\ cur' = o.v
    /\ UNCHANGED <<made, input, pc, introduced>>

\* r.value() as a completed call
ResultImpl_value(r, h) == Out(value(r).c, value(r).v, h, <<>>)

\* input.value()
Value ==
    /\ phase = "built"
    /\ Answered("value", Undefined, ResultImpl_value(input, heap))

\* input.unwrap(handler)
Unwrap ==
    /\ phase = "built"
    /\ \E handler \in UnwrapHandlers :
          Answered("unwrap", handler, ResultImpl_unwrap(input, handler, heap))

\* input.match(cases)
Match ==
    /\ phase = "built"
    /\ \E cases \in MethodCases :
          Answered("match", cases, ResultImpl_match(input, cases, heap))

\* input.matchErrors(errorCases)
MatchErrors ==
    /\ phase = "built"
    /\ \E errorCases \in MethodCases :
          Answered("matchErrors", errorCases,
                   ResultImpl_matchErrors(input, errorCases, heap))

\* const input = defect(e), for an error of any tag
DefectTagged ==
    /\ phase = "new"
    /\ \E e \in TaggedErrors :
        /\ input' = defect(e)
        /\ made' = <<"defect", e>>
    /\ phase' = "built"
    /\ UNCHANGED <<ops, pc, cur, heap, applied, outs, calls, introduced>>

\* input.unwrap(handler), a handler object { err: h } among the handlers
UnwrapTagged ==
    /\ phase = "built"
    /\ \E handler \in {Fn("inc", "sync"), Fn("dec", "sync")} \cup TagCases :
          Answered("unwrap", handler, ResultImpl_unwrap(input, handler, heap))

\* input.match(cases), for an error of any tag
MatchTagged ==
    /\ phase = "built"
    /\ \E cases \in TagCases :
          Answered("match", cases, ResultImpl_match(input, cases, heap))

\* safe(() => body(v), errorHandler) completed as o
SafeCalled(fn, v, errorHandler, o) ==
    /\ made' = <<"safe", fn, v, errorHandler>>
    /\ heap' = o.heap
    /\ calls' = calls \o [j \in 1..Len(o.called) |-> [op |-> 0, arg |-> o.called[j]]]
    /\ IF o.c = "throw"
       THEN /\ phase' = "thrown"
            /\ UNCHANGED cur
       ELSE /\ phase' = "returned"
            /\ cur' = o.v
    /\ UNCHANGED <<input, ops, pc, applied, outs, introduced>>

\* const result = safe(fn, errorOrHandler)
Safe ==
    /\ phase = "new"
    /\ \E b \in {"inc", "dec"}, m \in SafeModes, v \in Values, errorHandler \in ErrorHandlers :
          SafeCalled(Fn(b, m), v, errorHandler, safe(Fn(b, m), v, errorHandler, heap))

\* the outside world settles a promise a callback made
Settle ==
    /\ phase \in {"returned", "thrown"}
    /\ \E p \in 1..Len(heap) :
        /\ heap[p].state = "pending"
        /\ heap[p].how \in {"resolve", "reject"}
        /\ heap' = [heap EXCEPT ![p].state =
                        IF heap[p].how = "resolve" THEN "fulfilled" ELSE "rejected",
                                ![p].v = heap[p].will]
    /\ UNCHANGED <<phase, made, input, ops, pc, cur, applied, outs, calls, introduced>>

\* p = src.then(cb) takes the outcome o of its callback, run with x
Reacted(p, cb, x, o) ==
    /\ heap' =
          IF o.c = "throw"
          THEN [o.heap EXCEPT ![p].state = "rejected", ![p].v = o.v]
          ELSE IF IsProm(o.v)
          THEN [o.heap EXCEPT ![p].src = o.v.id, ![p].cb = <<"adopt">>]
          ELSE [o.heap EXCEPT ![p].state = "fulfilled", ![p].v = o.v]
    /\ IF cb[1] = "op"
       THEN Logged(cb[2], x, o)
       ELSE UNCHANGED <<applied, outs, calls>>

\* p takes the state of s: its source rejected (then has no onRejected
\* handler), or p follows the promise s its callback returned
Adopted(p, s) ==
    /\ heap' = [heap EXCEPT ![p].state = s.state, ![p].v = s.v]
    /\ UNCHANGED <<applied, outs, calls>>

\* the promise p, made by then, reacts to its settled source
React ==
    /\ phase \in {"returned", "thrown"}
    /\ \E p \in 1..Len(heap) :
        /\ heap[p].state = "pending"
        /\ heap[p].how = "then"
        /\ Settled(heap, heap[p].src)
        /\ IF heap[heap[p].src].state = "rejected" \/ heap[p].cb[1] = "adopt"
           THEN Adopted(p, heap[heap[p].src])
           ELSE Reacted(p, heap[p].cb, heap[heap[p].src].v,
                        Reaction(heap[p].cb, heap[heap[p].src].v, heap, ops))
    /\ UNCHANGED <<phase, made, input, ops, pc, cur, introduced>>

\* p = src.catch(cb) took the outcome o of its callback, run with the reason x
Caught(p, x, o) ==
    /\ heap' =
          IF o.c = "throw"
          THEN [o.heap EXCEPT ![p].state = "rejected", ![p].v = o.v]
          ELSE [o.heap EXCEPT ![p].state = "fulfilled", ![p].v = o.v]
    /\ calls' = calls \o [j \in 1..Len(o.called) |-> [op |-> 0, arg |-> o.called[j]]]
    /\ UNCHANGED <<applied, outs>>

\* the promise p, made by catch, reacts to its settled source: it runs its
\* callback on a rejection and takes over a fulfilment
ReactCatch ==
    /\ phase \in {"returned", "thrown"}
    /\ \E p \in 1..Len(heap) :
        /\ heap[p].state = "pending"
        /\ heap[p].how = "catch"
        /\ Settled(heap, heap[p].src)
        /\ IF heap[heap[p].src].state = "fulfilled"
           THEN Adopted(p, heap[heap[p].src])
           ELSE Caught(p, heap[heap[p].src].v,
                       Reaction(heap[p].cb, heap[heap[p].src].v, heap, ops))
    /\ UNCHANGED <<phase, made, input, ops, pc, cur, introduced>>

Next == Succeed \/ Defect \/ Pipe \/ ReduceStep \/ Settle \/ React

Spec == Init /\ [][Next]_vars

\* longer pipes of fewer operators: the ones that decide short-circuiting
\* and the propagation of exceptions
NextShort == Succeed \/ Defect \/ PipeShort \/ ReduceStep \/ Settle \/ React

SpecShort == Init /\ [][NextShort]_vars

\* pipes of chain and chainErr over every return shape of the callback
NextBare == Succeed \/ Defect \/ PipeBare \/ ReduceStep \/ Settle \/ React

SpecBare == Init /\ [][NextBare]_vars

\* the matching structures, called as methods and used as operators of a pipe
NextMatch ==
    \/ Succeed \/ Defect
    \/ Unwrap \/ Match \/ MatchErrors
    \/ PipeMatch \/ ReduceStep \/ Settle \/ React

SpecMatch == Init /\ [][NextMatch]_vars

\* unwrap and match on errors whose tag collides with a key of the mapping
NextTags == Succeed \/ DefectTagged \/ UnwrapTagged \/ MatchTagged

SpecTags == Init /\ [][NextTags]_vars

\* safe called on functions that return, throw, or return a promise
NextSafe == Safe \/ Settle \/ React \/ ReactCatch

SpecSafe == Init /\ [][NextSafe]_vars

\* every method of a Result and the pipes over the matching structures and
\* over callbacks that return plain values
NextMethods ==
    \/ Succeed \/ Defect
    \/ Value \/ Unwrap \/ Match \/ MatchErrors
    \/ PipeMatch \/ PipeBare \/ ReduceStep \/ Settle \/ React

SpecMethods == Init /\ [][NextMethods]_vars

\* pipes over Results that hold a promise as their value or their error
NextNested ==
    \/ SucceedPending \/ DefectPending
    \/ PipeNested \/ ReduceStep \/ Settle \/ React

SpecNested == Init /\ [][NextNested]_vars

\* pipes in which a callback may return a promise that never settles
NextStall == Succeed \/ Defect \/ PipeStall \/ ReduceStep \/ Settle \/ React

SpecStall == Init /\ [][NextStall]_vars

\* pipes whose callbacks all return or resolve. The reduce runs to
\* completion, every promise a callback made is resolved in the end, and the
\* job queue runs every reaction that is ready.
NextLive == Succeed \/ Defect \/ PipeLive \/ ReduceStep \/ Settle \/ React

SpecLive ==
    /\ Init /\ [][NextLive]_vars
    /\ WF_vars(ReduceStep) /\ WF_vars(Settle) /\ WF_vars(React)

(***************************************************************************)
(* Properties                                                              *)
(***************************************************************************)
\* the promise behind x, when x is one, is fulfilled
Fulfilled(x) == IsProm(x) => heap[x.id].state = "fulfilled"

\* x, an operator's output once resolved, carries no unsettled payload
PayloadFulfilled(x) ==
    IsResult(x) => Fulfilled(x._value) /\ Fulfilled(x._err)

\* the j-th invoked operator returned, and what it returned has fully settled
OutputSettled(j) ==
    /\ outs[j].c = "return"
    /\ Fulfilled(outs[j].v)
    /\ IF IsProm(outs[j].v)
       THEN PayloadFulfilled(heap[outs[j].v.id].v)
       ELSE PayloadFulfilled(outs[j].v)

\* C1: the operators given to pipe are invoked in the given order, each at
\* most once, and operator j is not invoked before the output of operator
\* j-1 has fully settled: the promise it returned and a promise held as the
\* payload of the Result it produced are both fulfilled by then.
C1_InOrderAfterSettled ==
    /\ \A j \in 1..Len(applied) : applied[j] = j
    /\ \A j \in 2..Len(applied) : OutputSettled(j - 1)

\* two operators ran, the first of which left a promise as the payload of
\* its Result and the second of which ran after another returned promise
C1_Witness ==
    /\ Len(applied) = 2
    /\ IsResult(outs[1].v) /\ IsProm(outs[1].v._value)
    /\ IsProm(outs[2].v)

\* C2: pipe returns a concrete Result exactly when no synchronously applied
\* operator returned something pending; from the first pending step on the
\* accumulator stays a promise for every later step, and the returned
\* promise is fulfilled only once every operator of the list has run.
C2_OnceAsyncAlwaysAsync ==
    /\ [](phase = "returned" => (IsProm(cur) <=> introduced))
    /\ [](phase = "returned" /\ ~IsProm(cur) => IsResult(cur))
    /\ [][phase = "reducing" /\ IsProm(cur) => IsProm(cur')]_vars
    /\ [](phase = "returned" /\ IsProm(cur) /\ heap[cur.id].state = "fulfilled"
            => /\ Len(applied) = Len(ops)
               /\ IsResult(heap[cur.id].v))

\* an asynchronous first operator followed by a synchronous one: the
\* pipeline promise resolved after both ran
C2_Witness ==
    /\ phase = "returned"
    /\ Len(ops) = 2
    /\ ops[1].fn.mode = "async" /\ ops[2].fn.mode = "sync"
    /\ IsProm(cur) /\ heap[cur.id].state = "fulfilled"
    /\ Len(calls) = 2

\* the callback of operator i was invoked
Called(i) == \E k \in 1..Len(calls) : calls[k].op = i

\* no reaction can run and no promise that will settle is still pending
Idle ==
    \A p \in 1..Len(heap) :
        heap[p].state = "pending" =>
            \/ heap[p].how = "never"
            \/ heap[p].how = "then" /\ ~Settled(heap, heap[p].src)

\* what pipe delivered: the returned Result, or the one its promise resolved to
Delivered ==
    IF phase # "returned" THEN NoResult
    ELSE IF ~IsProm(cur) THEN cur
    ELSE IF heap[cur.id].state = "fulfilled" THEN heap[cur.id].v
    ELSE NoResult

\* C3: no Result handed to a later operator or delivered by pipe holds a
\* promise as its value or error, and when the last operator is a map whose
\* callback returned a promise, pipe returns a promise that resolves to a
\* Success holding the value that promise settled to.
C3_AsyncNormalized ==
    /\ \A j \in 2..Len(outs) :
          IsResult(outs[j].x) => ~IsProm(outs[j].x._value) /\ ~IsProm(outs[j].x._err)
    /\ IsResult(Delivered) => ~IsProm(Delivered._value) /\ ~IsProm(Delivered._err)
    /\ \A j \in 1..Len(outs) :
          /\ phase = "returned"
          /\ j = Len(ops)
          /\ ops[j].name = "map"
          /\ IsResult(outs[j].v)
          /\ IsProm(outs[j].v._value)
          => /\ IsProm(cur)
             /\ heap[cur.id].state = "fulfilled" =>
                   /\ isSuccess(heap[cur.id].v)
                   /\ value(heap[cur.id].v) = Return(heap[outs[j].v._value.id].will)

SuccessOriented == {"map", "tap", "chain"}
FailureOriented == {"mapErr", "chainErr", "catchErr"}

\* the j-th invoked operator yielded a Failure, at once or through its promise
YieldsFailure(j) ==
    /\ outs[j].c = "return"
    /\ \/ IsResult(outs[j].v) /\ isFailure(outs[j].v)
       \/ /\ IsProm(outs[j].v)
          /\ heap[outs[j].v.id].state = "fulfilled"
          /\ IsResult(heap[outs[j].v.id].v)
          /\ isFailure(heap[outs[j].v.id].v)

\* a Success-oriented operator handed a Failure, or a Failure-oriented one
\* handed a Success, does not invoke its callback and passes the payload on
ShortCircuits ==
    \A j \in 1..Len(outs) :
        LET x == outs[j].x
            o == outs[j].v
            name == ops[applied[j]].name
        IN  IsResult(x) =>
            /\ isFailure(x) /\ name \in SuccessOriented =>
                  /\ ~Called(applied[j])
                  /\ outs[j].c = "return" /\ IsResult(o)
                  /\ isFailure(o) /\ error(o) = error(x)
            /\ isSuccess(x) /\ name \in FailureOriented =>
                  /\ ~Called(applied[j])
                  /\ outs[j].c = "return" /\ IsResult(o)
                  /\ isSuccess(o) /\ value(o) = value(x)

\* C4 as stated: operators short-circuit on the branch they are not for,
\* and once a step of a pipe yields a Failure the callback of every
\* Success-oriented operator after it is never invoked.
C4_ShortCircuitForever ==
    /\ ShortCircuits
    /\ \A j \in 1..Len(outs) : \A i \in (j + 1)..Len(outs) :
          YieldsFailure(j) /\ ops[applied[i]].name \in SuccessOriented
          => ~Called(applied[i])

\* C4 as amended: operators short-circuit on the branch they are not for,
\* and once a step of a pipe yields a Failure the callbacks of the
\* Success-oriented operators after it are not invoked as long as only
\* map, tap, chain, mapErr and catchErr steps lie in between, that is up to
\* the first chainErr that follows (whose callback may return a Success).
C4_ShortCircuitUntilRecovered ==
    /\ ShortCircuits
    /\ \A j \in 1..Len(outs) : \A i \in (j + 1)..Len(outs) :
          /\ YieldsFailure(j)
          /\ ops[applied[i]].name \in SuccessOriented
          /\ \A m \in (j + 1)..(i - 1) :
                ops[applied[m]].name \in SuccessOriented \cup {"mapErr", "catchErr"}
          => ~Called(applied[i])

\* a step yielded a Failure, a mapErr and then a Success-oriented operator
\* ran after it, and the latter left its callback alone
C4_Witness ==
    /\ Len(outs) = 3
    /\ isSuccess(input)
    /\ YieldsFailure(1)
    /\ ops[2].name = "mapErr" /\ Called(2)
    /\ ops[3].name \in SuccessOriented /\ ~Called(3)

\* the callback of the j-th invoked operator was invoked and threw
Raised(j) == Called(applied[j]) /\ ops[applied[j]].fn.mode = "throw"

\* C5: an exception thrown by an operator's callback is not turned into a
\* Failure: the operator throws it, no operator is applied after it and
\* pipe delivers no Result; in the synchronous part pipe itself throws, in
\* the asynchronous part the promise pipe returned is never fulfilled and
\* is rejected once every reaction has run.
C5_ExceptionsPropagate ==
    \A j \in 1..Len(applied) :
        Raised(j) =>
            /\ Len(applied) = j
            /\ outs[j].c = "throw"
            /\ Delivered = NoResult
            /\ IF introduced
               THEN /\ phase = "returned"
                    /\ IsProm(cur)
                    /\ Idle => heap[cur.id].state = "rejected"
               ELSE phase = "thrown"

\* after an asynchronous first step the second callback threw, every
\* reaction has run, the third operator never ran and the promise pipe
\* returned has rejected
C5_Witness ==
    /\ phase = "returned"
    /\ Len(ops) = 3
    /\ Len(applied) = 2
    /\ ops[1].fn.mode = "async"
    /\ Raised(2)
    /\ Idle
    /\ IsProm(cur) /\ heap[cur.id].state = "rejected"

\* v, or null for an omitted (undefined) v: the no-value marker value() gives
Held(v) == IF v = Undefined THEN Null ELSE v

\* C6: for every value v, falsy ones included, succeed(v) is a Success
\* whose value() is v (no value, for an omitted v) and whose error() is
\* null.
C6_SucceedHoldsValue ==
    (phase # "new" /\ made[1] = "succeed") =>
        /\ isSuccess(input)
        /\ value(input) = Return(Held(made[2]))
        /\ error(input) = Null

\* C7: for every structured error e, defect(e) is a Failure and no
\* Success, its error() is e and its value() throws 'Cannot get value from
\* Failure'.
C7_DefectHoldsError ==
    (phase # "new" /\ made[1] = "defect") =>
        /\ isFailure(input)
        /\ ~isSuccess(input)
        /\ error(input) = made[2]
        /\ value(input) = Throw(Exc("Cannot get value from Failure"))

\* defect built a Failure on which pipe was then called
C7_Witness ==
    /\ phase = "returned"
    /\ made = <<"defect", Err("OtherError")>>

\* every Result the state holds: the input, the accumulator, what promises
\* settled to, and what operators were handed and returned
Results ==
    {x \in {input, cur}
          \cup {heap[p].v : p \in 1..Len(heap)}
          \cup {heap[p].will : p \in 1..Len(heap)}
          \cup {outs[j].x : j \in 1..Len(outs)}
          \cup {outs[j].v : j \in 1..Len(outs)} : IsResult(x)}

\* C8: for every Result built by the factories, the operators or pipe,
\* exactly one of isSuccess() and isFailure() is true, the Result is a
\* Failure exactly when error() is not null, and error() of a Success is
\* null.
C8_ExactlyOneVariant ==
    \A r \in Results \cup {succeed(v) : v \in Values} \cup {defect(e) : e \in Errors} :
        /\ isSuccess(r) \in BOOLEAN /\ isFailure(r) \in BOOLEAN
        /\ isSuccess(r) # isFailure(r)
        /\ isFailure(r) <=> error(r) # Null
        /\ isSuccess(r) => error(r) = Null

\* a pipe on a Success has delivered a Failure made by an operator
C8_Witness ==
    /\ phase = "returned"
    /\ isSuccess(input)
    /\ IsResult(Delivered) /\ isFailure(Delivered)
    /\ Cardinality(Results) >= 3

\* C9: pipe with no operator returns a concrete Result with the variant,
\* value and error of the Result it was called on.
C9_EmptyPipeIsIdentity ==
    (phase = "returned" /\ Len(ops) = 0) =>
        /\ IsResult(cur)
        /\ isSuccess(cur) = isSuccess(input)
        /\ isFailure(cur) = isFailure(input)
        /\ value(cur) = value(input)
        /\ error(cur) = error(input)

\* pipe() returned on a Failure
C9_Witness ==
    /\ phase = "returned"
    /\ Len(ops) = 0
    /\ isFailure(input)

\* C10: map(f) handed succeed(v) invokes f once and yields a Success whose
\* value is what f returned; handed a Failure it yields a Failure with the
\* same error and does not invoke f.
C10_MapFunctor ==
    \A j \in 1..Len(outs) :
        LET i == applied[j]
            x == outs[j].x
            o == outs[j].v
        IN  (ops[i].name = "map" /\ IsResult(x)) =>
            /\ isSuccess(x) /\ ops[i].fn.mode = "sync" =>
                  /\ Cardinality({k \in 1..Len(calls) : calls[k].op = i}) = 1
                  /\ IsResult(o) /\ isSuccess(o)
                  /\ value(o) = Return(Body(ops[i].fn, value(x).v))
            /\ isFailure(x) =>
                  /\ ~Called(i)
                  /\ IsResult(o) /\ isFailure(o)
                  /\ error(o) = error(x)

\* the callback of operator i was invoked exactly once, with a
InvokedOnceWith(i, a) ==
    /\ Cardinality({k \in 1..Len(calls) : calls[k].op = i}) = 1
    /\ \A k \in 1..Len(calls) : calls[k].op = i => calls[k].arg = a

\* C11: mapErr(f) handed a Failure with error e invokes f once with e and
\* yields a Failure whose error is f(e); when f returns a promise it yields
\* a promise that is fulfilled only after f's promise, with the Failure of
\* the error that promise settled to. Handed a Success it yields a Success
\* with the same value and does not invoke f.
C11_MapErrMapsError ==
    \A j \in 1..Len(outs) :
        LET i == applied[j]
            x == outs[j].x
            o == outs[j].v
        IN  (ops[i].name = "mapErr" /\ IsResult(x)) =>
            /\ outs[j].c = "return"
            /\ isFailure(x) /\ ops[i].fn.mode = "sync" =>
                  /\ InvokedOnceWith(i, error(x))
                  /\ IsResult(o) /\ isFailure(o)
                  /\ error(o) = Body(ops[i].fn, error(x))
            /\ isFailure(x) /\ ops[i].fn.mode = "async" =>
                  /\ InvokedOnceWith(i, error(x))
                  /\ IsProm(o)
                  /\ heap[heap[o.id].src].how = "resolve"
                  /\ heap[heap[o.id].src].will = Body(ops[i].fn, error(x))
                  /\ Settled(heap, o.id) =>
                        /\ Settled(heap, heap[o.id].src)
                        /\ heap[o.id].state = "fulfilled"
                        /\ IsResult(heap[o.id].v) /\ isFailure(heap[o.id].v)
                        /\ error(heap[o.id].v) = heap[heap[o.id].src].v
                        /\ error(heap[o.id].v) = Body(ops[i].fn, error(x))
            /\ isSuccess(x) =>
                  /\ ~Called(i)
                  /\ IsResult(o) /\ isSuccess(o)
                  /\ value(o) = value(x)

\* an asynchronous mapErr handed a Failure has resolved to the Failure of
\* the mapped error
C11_Witness ==
    /\ Len(outs) >= 1
    /\ ops[applied[1]].name = "mapErr"
    /\ ops[applied[1]].fn.mode = "async"
    /\ isFailure(input)
    /\ IsProm(outs[1].v)
    /\ heap[outs[1].v.id].state = "fulfilled"
    /\ error(heap[outs[1].v.id].v) = Err("MapError")

\* the three-way normalization of what a chain callback returned
Normalized(r) ==
    IF IsResult(r) THEN r
    ELSE IF isError(r) THEN defect(r)
    ELSE succeed(r)

\* C12: chain(f) handed a Success and chainErr(f) handed a Failure yield
\* what f returned, normalized: a Result as it is, a bare structured error
\* as a new Failure carrying it, any other bare value as a new Success
\* carrying it.
C12_ChainNormalizes ==
    \A j \in 1..Len(outs) :
        LET i == applied[j]
            x == outs[j].x
        IN  /\ IsResult(x)
            /\ ops[i].fn.mode = "sync"
            /\ \/ ops[i].name = "chain" /\ isSuccess(x)
               \/ ops[i].name = "chainErr" /\ isFailure(x)
            => /\ outs[j].c = "return"
               /\ outs[j].v = Normalized(Body(ops[i].fn,
                                  IF isSuccess(x) THEN value(x).v ELSE error(x)))

\* fail(e1).pipe(mapErr(async e => e2), chainErr(async e => fail(e3)))
AsyncFailureScenario ==
    /\ phase \in {"reducing", "returned", "thrown"}
    /\ isFailure(input)
    /\ ops = <<Op("mapErr", "err", "async"), Op("chainErr", "fail", "async")>>

\* C13: chainErr(f) handed a Failure with error e invokes f once with e and
\* yields what f returned directly, Success or Failure; when f returns a
\* promise the pipe returns a promise that is fulfilled with the Result f's
\* promise settled to. In the scenario mapErr(async) then chainErr(async)
\* on a Failure, the chainErr callback receives the settled mapped error
\* and the pipeline resolves to the Failure the callback made. Handed a
\* Success, chainErr yields a Success with the same value.
C13_ChainErrYieldsResult ==
    /\ \A j \in 1..Len(outs) :
          LET i == applied[j]
              x == outs[j].x
              o == outs[j].v
          IN  (ops[i].name = "chainErr" /\ IsResult(x)) =>
              /\ outs[j].c = "return"
              /\ isFailure(x) =>
                    /\ InvokedOnceWith(i, error(x))
                    /\ ops[i].fn.mode = "sync" => o = Body(ops[i].fn, error(x))
                    /\ ops[i].fn.mode = "async" =>
                          /\ IsProm(o)
                          /\ heap[o.id].how = "resolve"
                          /\ heap[o.id].will = Body(ops[i].fn, error(x))
                          /\ phase = "returned" /\ i = Len(ops) =>
                                /\ IsProm(cur)
                                /\ Settled(heap, cur.id) =>
                                      /\ Settled(heap, o.id)
                                      /\ heap[cur.id].state = "fulfilled"
                                      /\ heap[cur.id].v = Body(ops[i].fn, error(x))
              /\ isSuccess(x) =>
                    /\ ~Called(i)
                    /\ IsResult(o) /\ isSuccess(o)
                    /\ value(o) = value(x)
    /\ AsyncFailureScenario =>
          /\ Len(outs) >= 2 =>
                /\ outs[2].x = defect(Err("MapError"))
                /\ InvokedOnceWith(2, Err("MapError"))
          /\ IsProm(cur) /\ Settled(heap, cur.id) =>
                Delivered = defect(Err("ChainError"))

\* the scenario has run to its end: the pipeline resolved to the Failure
\* the chainErr callback made
C13_Witness ==
    /\ AsyncFailureScenario
    /\ phase = "returned"
    /\ Len(calls) = 2
    /\ Delivered = defect(Err("ChainError"))

\* the payload the side effect of a tap or catchErr is meant for
SideEffectArg(name, x) == IF name = "tap" THEN value(x).v ELSE error(x)

\* C14: tap and catchErr with a side effect that does not throw yield the
\* Result they were handed (a tap whose side effect returned a promise
\* yields a promise of it); tap invokes the side effect exactly once, with
\* the value, only on a Success, and catchErr exactly once, with the error,
\* only on a Failure.
C14_TapPassesThrough ==
    \A j \in 1..Len(outs) :
        LET i == applied[j]
            x == outs[j].x
            o == outs[j].v
            name == ops[i].name
        IN  (name \in {"tap", "catchErr"} /\ IsResult(x) /\ ops[i].fn.mode # "throw") =>
            /\ outs[j].c = "return"
            /\ IF IsProm(o)
               THEN /\ name = "tap" /\ ops[i].fn.mode = "async" /\ isSuccess(x)
                    /\ Settled(heap, o.id) =>
                          heap[o.id].state = "fulfilled" /\ heap[o.id].v = x
               ELSE /\ o = x
                    /\ isSuccess(o) = isSuccess(x)
                    /\ value(o) = value(x)
                    /\ error(o) = error(x)
            /\ IF (name = "tap") = isSuccess(x)
               THEN InvokedOnceWith(i, SideEffectArg(name, x))
               ELSE ~Called(i)

\* a catchErr ran its side effect on a Failure, the tap after it left its
\* own alone, and the pipe returned the Failure it was called on
C14_Witness ==
    /\ phase = "returned"
    /\ isFailure(input)
    /\ Len(ops) = 2
    /\ ops[1].name = "catchErr" /\ ops[1].fn.mode = "sync" /\ Called(1)
    /\ ops[2].name = "tap" /\ ~Called(2)
    /\ cur = input

\* the promises made by callbacks, in the order they were made
UserPromises == {p \in 1..Len(heap) : heap[p].how # "then"}

\* the calls, up to the n-th, whose callback returned a promise
AsyncCalls(n) == {k \in 1..n : ops[calls[k].op].fn.mode \notin {"sync", "throw"}}

\* the promise the callback of operator i returned: callbacks make their
\* promises in the order they are called
SideEffectPromise(i) ==
    LET n == CHOOSE k \in 1..Len(calls) : calls[k].op = i
    IN  CHOOSE p \in UserPromises :
            Cardinality({q \in UserPromises : q <= p}) = Cardinality(AsyncCalls(n))

\* C15: a tap whose side effect returned a promise on a Success yields a
\* promise that settles only after the side effect's promise and, that one
\* fulfilled, is fulfilled with the Result tap was handed; the operator
\* after tap is applied only once the side effect's promise has settled,
\* and is handed that same Result.
C15_TapAwaitsSideEffect ==
    \A j \in 1..Len(outs) :
        LET i == applied[j]
            x == outs[j].x
            o == outs[j].v
        IN  (ops[i].name = "tap" /\ ops[i].fn.mode = "async" /\ IsResult(x) /\ isSuccess(x)) =>
            /\ outs[j].c = "return"
            /\ IsProm(o)
            /\ Settled(heap, o.id) =>
                  /\ Settled(heap, SideEffectPromise(i))
                  /\ heap[SideEffectPromise(i)].state = "fulfilled" =>
                        /\ heap[o.id].state = "fulfilled"
                        /\ heap[o.id].v = x
            /\ Len(outs) > j =>
                  /\ Settled(heap, SideEffectPromise(i))
                  /\ outs[j + 1].x = x

\* after an asynchronous tap on a Success the side effect has settled and
\* the second operator was applied to the Result tap was handed
C15_Witness ==
    /\ Len(outs) = 2
    /\ isSuccess(input)
    /\ ops[1].name = "tap" /\ ops[1].fn.mode = "async"
    /\ Settled(heap, SideEffectPromise(1))
    /\ heap[outs[1].v.id].state = "fulfilled"
    /\ outs[2].x = input

\* C16: a catchErr (tapErr) whose side effect returned a promise on a
\* Failure suspends the pipeline: the operator after it is applied only
\* once that promise has settled, and is handed the Failure unchanged.
C16_CatchErrAwaitsSideEffect ==
    \A j \in 1..Len(outs) :
        LET i == applied[j]
            x == outs[j].x
        IN  (ops[i].name = "catchErr" /\ ops[i].fn.mode = "async"
                /\ IsResult(x) /\ isFailure(x) /\ Len(outs) > j) =>
            /\ Settled(heap, SideEffectPromise(i))
            /\ outs[j + 1].x = x

\* the states in which a method, not pipe, was called on input
MethodCalled == phase \in {"answered", "faulted"}

\* C17: unwrap on a Success returns the held value and invokes no handler,
\* function or mapping; unwrap(f) with a function f on a Failure with
\* error e invokes f exactly once with e and returns f(e), whatever the
\* tag of e.
C17_UnwrapValueOrHandler ==
    (MethodCalled /\ ops[1].name = "unwrap") =>
        /\ isSuccess(input) =>
              /\ phase = "answered"
              /\ Return(cur) = value(input)
              /\ calls = <<>>
        /\ isFailure(input) /\ IsFunction(ops[1].fn) =>
              /\ phase = "answered"
              /\ InvokedOnceWith(1, Handled("handler", error(input)))
              /\ Len(calls) = 1
              /\ cur = Body(ops[1].fn, error(input))

\* unwrap(e => ...) was called on a Failure and returned
C17_Witness ==
    /\ phase = "answered"
    /\ ops[1].name = "unwrap"
    /\ IsFunction(ops[1].fn)
    /\ input = defect(Err("OtherError"))
    /\ Len(calls) = 1

\* what calling fn with arg returns at once: its value, or the promise of it
ReturnsOf(fn, arg, o) ==
    IF fn.mode = "sync" THEN o = Body(fn, arg)
    ELSE IsProm(o) /\ heap[o.id].how = "resolve" /\ heap[o.id].will = Body(fn, arg)

\* C18: match, matchErrors and unwrap with a cases mapping, applied to a
\* Failure whose error has tag t when the mapping has a handler for t,
\* invoke the handler keyed by t once with the error, invoke no other
\* handler, and return what that handler returned; match applied to a
\* Success invokes exactly the Success handler with the value and returns
\* what it returned.
C18_DiscriminantDispatch ==
    \A j \in 1..Len(outs) :
        LET i == applied[j]
            x == outs[j].x
            cases == ops[i].fn
        IN  /\ ops[i].name \in {"unwrap", "match", "matchErrors"}
            /\ ~IsFunction(cases)
            /\ IsResult(x)
            => /\ isFailure(x) /\ error(x).tag \in DOMAIN cases.handlers =>
                     /\ InvokedOnceWith(i, Handled(error(x).tag, error(x)))
                     /\ outs[j].c = "return"
                     /\ ReturnsOf(cases.handlers[error(x).tag], error(x), outs[j].v)
               /\ /\ isSuccess(x)
                  /\ ops[i].name = "match"
                  /\ "Success" \in DOMAIN cases.handlers
                  => /\ InvokedOnceWith(i, Handled("Success", value(x).v))
                     /\ outs[j].c = "return"
                     /\ ReturnsOf(cases.handlers["Success"], value(x).v, outs[j].v)

\* unwrap with handlers for both tags was called on an OtherError Failure
\* and returned what the OtherError handler computes, which the TestError
\* handler would not
C18_Witness ==
    /\ phase = "answered"
    /\ ops[1].name = "unwrap"
    /\ ~IsFunction(ops[1].fn)
    /\ DOMAIN ops[1].fn.handlers = {"TestError", "OtherError"}
    /\ ops[1].fn.handlers["TestError"] # ops[1].fn.handlers["OtherError"]
    /\ input = defect(Err("OtherError"))
    /\ calls = <<[op |-> 1, arg |-> Handled("OtherError", Err("OtherError"))]>>
    /\ cur = Body(ops[1].fn.handlers["OtherError"], Err("OtherError"))

\* C19: matchErrors applied to a Success, as a method or as an operator of
\* a pipe, invokes no handler and returns the Success it was applied to: a
\* Result that is a Success with the same value.
C19_MatchErrorsKeepsSuccess ==
    \A j \in 1..Len(outs) :
        LET i == applied[j]
            x == outs[j].x
            o == outs[j].v
        IN  (ops[i].name = "matchErrors" /\ IsResult(x) /\ isSuccess(x)) =>
            /\ ~Called(i)
            /\ outs[j].c = "return"
            /\ IsResult(o)
            /\ isSuccess(o)
            /\ value(o) = value(x)

\* C20: unwrap with a cases mapping, match and matchErrors, as methods or
\* as operators, applied to a Failure whose error has a tag t the mapping
\* has no handler for, throw 'Unhandled error: t': no handler is invoked
\* and nothing is returned, the method call throws, and a pipe throws or
\* its promise is not fulfilled, with no operator applied afterwards.
C20_UnhandledErrorThrows ==
    \A j \in 1..Len(outs) :
        LET i == applied[j]
            x == outs[j].x
            cases == ops[i].fn
        IN  /\ ops[i].name \in {"unwrap", "match", "matchErrors"}
            /\ ~IsFunction(cases)
            /\ IsResult(x) /\ isFailure(x)
            /\ error(x).tag \notin DOMAIN cases.handlers
            => /\ outs[j].c = "throw"
               /\ outs[j].v = Unhandled(error(x).tag)
               /\ ~Called(i)
               /\ Len(applied) = j
               /\ IF MethodCalled
                  THEN phase = "faulted" /\ cur = NoResult
                  ELSE /\ Delivered = NoResult
                       /\ IF introduced
                          THEN /\ phase = "returned" /\ IsProm(cur)
                               /\ Idle => heap[cur.id].state = "rejected"
                          ELSE phase = "thrown"

\* after an asynchronous step that recovered nothing, a matchErrors with
\* no handler for the error's tag made the promise of the pipe reject
C20_Witness ==
    /\ phase = "returned"
    /\ Len(ops) = 2
    /\ Len(applied) = 2
    /\ ops[2].name = "matchErrors"
    /\ outs[2].c = "throw"
    /\ IsProm(cur) /\ heap[cur.id].state = "rejected"

\* a handler object of the form { err: h }
ErrObject(handler) == ~IsFunction(handler) /\ DOMAIN handler.handlers = {"err"}

\* unwrap({ err: h }) was called on a Failure
UnwrapErrObject ==
    /\ MethodCalled
    /\ ops[1].name = "unwrap"
    /\ ErrObject(ops[1].fn)
    /\ isFailure(input)

\* h of { err: h } was called once with the error and unwrap returned h's output
ErrHandlerAnswered ==
    /\ phase = "answered"
    /\ InvokedOnceWith(1, Handled("err", error(input)))
    /\ cur = Body(ops[1].fn.handlers["err"], error(input))

C30_SuccessHandlerOnlyOnSuccess ==
    (MethodCalled /\ ops[1].name = "match" /\ isFailure(input)) =>
        \A k \in 1..Len(calls) : calls[k].arg.key # "Success"

\* safe(fn, errorOrHandler) has been called: made = <<"safe", fn, v, errorOrHandler>>
SafeMade == phase # "new" /\ made[1] = "safe"

\* r is the Failure safe makes of the exception or rejection reason x: the
\* UnknownError wrapping x when no errorOrHandler was given, the given
\* error itself, or what the handler returned, the handler having been
\* invoked exactly once, with x
FailureFor(r, x) ==
    /\ IsResult(r) /\ isFailure(r)
    /\ IF IsFunction(made[4])
       THEN /\ error(r) = Body(made[4], x)
            /\ calls = <<[op |-> 0, arg |-> x]>>
       ELSE /\ calls = <<>>
            /\ error(r) = IF made[4] = Undefined THEN UnknownError(x) ELSE made[4]

\* r is the Success holding what fn computed
SuccessFor(r) ==
    /\ IsResult(r) /\ isSuccess(r)
    /\ value(r) = Return(Held(Body(made[2], made[3])))

\* C22: safe with a synchronous fn lets no exception of fn escape: when fn
\* returns v the result is a Success holding v and the handler is not
\* invoked; when fn throws x the result is a Failure whose error is the
\* UnknownError wrapping x, the given error, or handler(x), the handler
\* being invoked exactly once.
C22_SafeSync ==
    (SafeMade /\ made[2].mode \in {"sync", "throw"}) =>
        /\ phase = "returned"
        /\ made[2].mode = "sync" => SuccessFor(cur) /\ calls = <<>>
        /\ made[2].mode = "throw" => FailureFor(cur, Exc("callback"))

\* C23: safe with fn returning a promise returns a promise that never
\* rejects: it is fulfilled only after fn's promise has settled, with a
\* Success holding the resolved value when fn's promise resolved, and with
\* the Failure made of the rejection reason, by the rules of the
\* synchronous case, when it rejected.
C23_SafeAsync ==
    (SafeMade /\ made[2].mode \in {"async", "reject", "never"}) =>
        /\ phase = "returned"
        /\ IsProm(cur)
        /\ heap[cur.id].state # "rejected"
        /\ ~Settled(heap, cur.id) => calls = <<>>
        /\ Settled(heap, cur.id) =>
              /\ Settled(heap, 1)
              /\ made[2].mode = "async" => SuccessFor(heap[cur.id].v) /\ calls = <<>>
              /\ made[2].mode = "reject" => FailureFor(heap[cur.id].v, Exc("rejected"))


\* the Result the factory call recorded in made returned
AsConstructed == IF made[1] = "succeed" THEN succeed(made[2]) ELSE defect(made[2])

WellTyped ==
    \A i \in 1..Len(ops) :
        ops[i].name = "match" => "Success" \in DOMAIN ops[i].fn.handlers

\* one of the two programmer-error faults: value() on a Failure, or a cases
\* mapping without a handler for the error's discriminant
ProgrammerError(j) ==
    \/ /\ outs[j].v = Exc("Cannot get value from Failure")
       /\ ops[applied[j]].name = "value"
       /\ isFailure(outs[j].x)
    \/ /\ outs[j].v.msg = "Unhandled error"
       /\ ops[applied[j]].name \in {"unwrap", "match", "matchErrors"}
       /\ isFailure(outs[j].x)
       /\ outs[j].v.tag = error(outs[j].x).tag
       /\ outs[j].v.tag \notin DOMAIN ops[applied[j]].fn.handlers

\* C25: with callbacks that do not throw, whether they return plain values,
\* Results or promises, the only faults are the two programmer errors: a
\* method or operator throws only for one of them, pipe throws or the promise
\* it returned rejects only because an operator threw one of them.
C25_OnlyTwoFaults ==
    WellTyped =>
        /\ \A j \in 1..Len(outs) : outs[j].c = "throw" => ProgrammerError(j)
        /\ phase \in {"thrown", "faulted"} =>
               /\ Len(outs) >= 1
               /\ outs[Len(outs)].c = "throw"
        /\ \A p \in 1..Len(heap) :
               heap[p].state = "rejected" => heap[p].v.msg = "Unhandled error"

\* what the thread of a pipe may hold: a Result, or a promise
Threadable(x) == IsResult(x) \/ IsProm(x)

\* C26: at every step of a pipe the threaded value is a Result or a promise
\* that settles to one: every operator is handed a Result and returns a
\* Result or a promise, and no promise of the pipe is fulfilled with anything
\* but a Result.
C26_ThreadHoldsResult ==
    phase \in {"reducing", "returned", "thrown"} =>
        /\ Threadable(cur)
        /\ \A j \in 1..Len(outs) :
               /\ IsResult(outs[j].x)
               /\ outs[j].c = "return" => Threadable(outs[j].v)
        /\ \A p \in 1..Len(heap) :
               (heap[p].how = "then" /\ heap[p].state = "fulfilled")
                   => IsResult(heap[p].v)

\* the promises unwrapPromiseInResult made for a pending value or error
Rewraps == {p \in 1..Len(heap) : heap[p].cb[1] \in {"succeed", "defectIfError"}}

\* C27: the promise that replaces a Result holding a pending value or a
\* pending error is fulfilled with what that payload resolved to, re-wrapped:
\* a Result as it is, a structured error as a Failure carrying it, anything
\* else as a Success carrying it, the same for both branches.
C27_NestedRewrap ==
    \A p \in Rewraps :
        Settled(heap, p) =>
            /\ heap[p].state = "fulfilled"
            /\ heap[p].v = Normalized(heap[heap[p].src].v)

\* the callback of the j-th invoked operator was invoked and returned a
\* promise that never settles
Stalled(j) == Called(applied[j]) /\ ops[applied[j]].fn.mode = "never"

\* C28: once a callback has returned a promise that never settles, no later
\* operator is applied, no later callback is invoked, and pipe returns a
\* promise that stays pending.
C28_NeverSettlingStalls ==
    \A j \in 1..Len(applied) :
        Stalled(j) =>
            /\ Len(applied) = j
            /\ \A k \in 1..Len(calls) : calls[k].op <= applied[j]
            /\ phase # "thrown"
            /\ phase = "returned" => (IsProm(cur) /\ ~Settled(heap, cur.id))

\* pipe has delivered a Result and applied every operator once, in order
Done ==
    /\ IsResult(Delivered)
    /\ applied = [j \in 1..Len(ops) |-> j]

\* C29: a pipe whose callbacks do not throw and whose promises all resolve
\* delivers a final Result in the end, every operator applied exactly once.
C29_Terminates == (phase = "reducing") ~> Done

============================================================================
